---- MODULE Spec2Model ----
(***************************************************************************)
(* Kubernetes Multi-OS Installer: the main-process installer engine        *)
(* (class KubernetesInstaller and the ipcMain handlers).                   *)
(*                                                                         *)
(* One IPC request is followed from its arrival to the value (or the       *)
(* rejection) handed back to the renderer.  The host is the environment:   *)
(* its OS family, its marker files and the way each external process ends. *)
(*                                                                         *)
(* A command line is a sequence of tokens: a token is either one of the    *)
(* shell metacharacters "&", "<", ">", "|" or a piece of text that holds   *)
(* none of them.  An output text is a sequence of phrases.                 *)
(***************************************************************************)
EXTENDS Integers, Sequences, FiniteSets, TLC

VARIABLES
    impl,            \* which main-process file is loaded
    platform,        \* os.platform() of the host
    markerFiles,     \* which of the /etc marker files exist
    pc,              \* position of the request in its handler
    req,             \* the IPC request being served
    packageManager,  \* this.packageManager of the installer built for it
    child,           \* the external process the handler is waiting for
    spawned,         \* external processes started since the request arrived
    execCalls,       \* calls of executeCommand since the request arrived
    checks,          \* installed flags gathered by checkPrerequisites
    execResult,      \* what executeCommand resolved with
    ended,           \* how the executed command ended
    workerAlive,     \* the process doing the work of the executed command runs
    result,          \* the value returned to the renderer
    probes,          \* the probes detectPackageManager ran, with their answers
    checkExits,      \* per awaited checkCommand: its command exited with code 0
    prevDockerOk,    \* the request before this one was a docker install that
                     \* exited 0 or failed as "already installed", and succeeded
    stepsDone,       \* the "&&" steps of the executed command that completed
    prevApt,         \* the request before this one was detect-package-manager
                     \* and it answered apt
    electronAPI,     \* window.electronAPI is defined in the renderer
    currentStep,     \* App: the wizard step shown
    osInfo,          \* App: platform of the OS info recorded, or "null"
    prerequisites,   \* App: the prerequisite results recorded
    loading,         \* OSDetectionStep / PrerequisitesStep / VerificationStep
    detected,        \* OSDetectionStep: osInfo && pmInfo of the step are set
    installing,      \* an InstallationStep is mounted
    components,      \* InstallationStep: the queue with the status of each entry
    currentIndex,    \* InstallationStep
    isComplete,      \* InstallationStep
    timer,           \* InstallationStep: argument of the pending setCurrentIndex
    selectedCluster, \* ClusterSetupStep
    setupStatus,     \* ClusterSetupStep
    inflight,        \* IPC calls of the renderer that have not settled yet
    handed,          \* the prerequisites prop the mounted InstallationStep got
    started,         \* indexes installComponent ran for since the step mounted
    finished,        \* keys that reached success, skipped or error so far
    homebrewRequested \* install-homebrew has been invoked

vars == <<impl, platform, markerFiles, pc, req, packageManager, child,
          spawned, execCalls, checks, execResult, ended, workerAlive, result,
          probes, checkExits, prevDockerOk, stepsDone, prevApt,
          electronAPI, currentStep, osInfo, prerequisites, loading, detected,
          installing, components, currentIndex, isComplete, timer,
          selectedCluster, setupStatus, inflight, handed, started, finished,
          homebrewRequested>>

----------------------------------------------------------------------------
(* The host and the two main-process files of the repository.              *)

Impls == {"main_cjs", "part_000"}

Platforms == {"darwin", "win32", "linux", "freebsd"}

SupportedPlatforms == {"darwin", "win32", "linux"}

MarkerFileNames == {"/etc/debian_version", "/etc/redhat-release", "/etc/arch-release"}

MetaChars == {"&", "<", ">"}

----------------------------------------------------------------------------
(* Timeouts, in milliseconds.  NoTimeout is the absence of the option.     *)

NoTimeout == 0

DefaultTimeout == 300000

LongTimeout == 600000

CheckTimeoutCjs == 10000

CheckTimeoutLegacy == 5000

----------------------------------------------------------------------------
(* String.prototype.replace(/&/g,'^&').replace(/</g,'^<').replace(/>/g,'^>') *)

RECURSIVE Escape(_)
Escape(command) ==
    IF command = <<>> THEN <<>>
    ELSE IF Head(command) \in MetaChars
         THEN <<"^", Head(command)>> \o Escape(Tail(command))
         ELSE <<Head(command)>> \o Escape(Tail(command))

(* String.prototype.includes on an output text.                            *)
Includes(text, phrase) == \E i \in 1..Len(text) : text[i] = phrase

(* The command line holds the operators that make the shell fork.          *)
IsCompound(command) == \E i \in 1..Len(command) : command[i] \in {"&", "|"}

----------------------------------------------------------------------------
(* Command lines of the installer.                                         *)

AndAnd == <<"&", "&">>

WingetFlags == " --accept-package-agreements --accept-source-agreements --silent --force"

HomebrewScript ==
    <<"/bin/bash -c \"$(curl -fsSL https://raw.githubusercontent.com/Homebrew/install/HEAD/install.sh)\"">>

Resolved(command) == [early |-> FALSE, command |-> command]

UnsupportedPlatform == [early |-> TRUE, command |-> <<>>]

(* The switch of installDocker.  part_000 has no default case: the command *)
(* stays the empty string it was initialised with.                         *)
installDockerCommand(im, plat, pm) ==
    IF im = "main_cjs"
    THEN CASE plat = "darwin" -> Resolved(<<"brew install --cask docker">>)
           [] plat = "win32"  ->
                IF pm = "winget"
                THEN Resolved(<<"winget install --id Docker.DockerDesktop" \o WingetFlags>>)
                ELSE Resolved(<<"choco install docker-desktop -y --force">>)
           [] plat = "linux"  ->
                Resolved(<<"curl -fsSL https://get.docker.com -o get-docker.sh ">> \o AndAnd
                         \o <<" sudo sh get-docker.sh ">> \o AndAnd \o <<" rm get-docker.sh">>)
           [] OTHER -> UnsupportedPlatform
    ELSE CASE plat = "darwin" -> Resolved(<<"brew install --cask docker">>)
           [] plat = "win32"  ->
                IF pm = "winget"
                THEN Resolved(<<"winget install Docker.DockerDesktop">>)
                ELSE Resolved(<<"choco install docker-desktop -y">>)
           [] plat = "linux"  ->
                Resolved(<<"curl -fsSL https://get.docker.com -o /tmp/get-docker.sh ">> \o AndAnd
                         \o <<" sudo sh /tmp/get-docker.sh">>)
           [] OTHER -> Resolved(<<>>)

installKubectlCommand(im, plat, pm) ==
    IF im = "main_cjs"
    THEN CASE plat = "darwin" -> Resolved(<<"brew install kubectl">>)
           [] plat = "win32"  ->
                IF pm = "winget"
                THEN Resolved(<<"winget install --id Kubernetes.kubectl" \o WingetFlags>>)
                ELSE Resolved(<<"choco install kubernetes-cli -y">>)
           [] plat = "linux"  ->
                IF pm = "apt"
                THEN Resolved(<<"sudo apt-get update ">> \o AndAnd
                              \o <<" sudo apt-get install -y kubectl">>)
                ELSE Resolved(<<"curl -LO \"https://dl.k8s.io/release/$(curl -L -s https://dl.k8s.io/release/stable.txt)/bin/linux/amd64/kubectl\" ">>
                              \o AndAnd \o <<" chmod +x kubectl ">> \o AndAnd
                              \o <<" sudo install kubectl /usr/local/bin/ ">> \o AndAnd
                              \o <<" rm kubectl">>)
           [] OTHER -> UnsupportedPlatform
    ELSE CASE plat = "darwin" -> Resolved(<<"brew install kubectl">>)
           [] plat = "win32"  ->
                IF pm = "winget"
                THEN Resolved(<<"winget install Kubernetes.kubectl">>)
                ELSE Resolved(<<"choco install kubernetes-cli -y">>)
           [] plat = "linux"  ->
                IF pm = "apt"
                THEN Resolved(<<"sudo apt-get update ">> \o AndAnd
                              \o <<" sudo apt-get install -y kubectl">>)
                ELSE Resolved(<<"curl -LO \"https://dl.k8s.io/release/$(curl -L -s https://dl.k8s.io/release/stable.txt)/bin/linux/amd64/kubectl\" ">>
                              \o AndAnd
                              \o <<" sudo install -o root -g root -m 0755 kubectl /usr/local/bin/kubectl">>)
           [] OTHER -> Resolved(<<>>)

(* installMinikubeCommand with the Windows choice taken the wrong way      *)
(* round: the winget command unless winget was detected.                   *)
installMinikubeCommandSwapped(im, plat, pm) ==
    CASE plat = "darwin" -> Resolved(<<"brew install minikube">>)
      [] plat = "win32"  ->
           IF pm # "winget"
           THEN Resolved(<<"winget install Kubernetes.minikube">>)
           ELSE Resolved(<<"choco install minikube -y">>)
      [] plat = "linux"  ->
           Resolved(<<"curl -LO https://storage.googleapis.com/minikube/releases/latest/minikube-linux-amd64 ">>
                    \o AndAnd
                    \o <<" sudo install minikube-linux-amd64 /usr/local/bin/minikube">>)
      [] OTHER -> IF im = "main_cjs" THEN UnsupportedPlatform ELSE Resolved(<<>>)

installMinikubeCommand(im, plat, pm) ==
    IF im = "main_cjs"
    THEN CASE plat = "darwin" -> Resolved(<<"brew install minikube">>)
           [] plat = "win32"  ->
                IF pm = "winget"
                THEN Resolved(<<"winget install --id Kubernetes.minikube" \o WingetFlags>>)
                ELSE Resolved(<<"choco install minikube -y">>)
           [] plat = "linux"  ->
                Resolved(<<"curl -LO https://storage.googleapis.com/minikube/releases/latest/minikube-linux-amd64 ">>
                         \o AndAnd \o <<" chmod +x minikube-linux-amd64 ">> \o AndAnd
                         \o <<" sudo install minikube-linux-amd64 /usr/local/bin/minikube ">>
                         \o AndAnd \o <<" rm minikube-linux-amd64">>)
           [] OTHER -> UnsupportedPlatform
    ELSE CASE plat = "darwin" -> Resolved(<<"brew install minikube">>)
           [] plat = "win32"  ->
                IF pm = "winget"
                THEN Resolved(<<"winget install Kubernetes.minikube">>)
                ELSE Resolved(<<"choco install minikube -y">>)
           [] plat = "linux"  ->
                Resolved(<<"curl -LO https://storage.googleapis.com/minikube/releases/latest/minikube-linux-amd64 ">>
                         \o AndAnd
                         \o <<" sudo install minikube-linux-amd64 /usr/local/bin/minikube">>)
           [] OTHER -> Resolved(<<>>)

(* installKindCommand with the Windows choice taken the wrong way round.   *)
installKindCommandSwapped(im, plat, pm) ==
    CASE plat = "darwin" -> Resolved(<<"brew install kind">>)
      [] plat = "win32"  ->
           IF im = "main_cjs" /\ pm # "winget"
           THEN Resolved(<<"winget install --id Kubernetes.Kind" \o WingetFlags>>)
           ELSE Resolved(<<"choco install kind -y">>)
      [] plat = "linux"  ->
           Resolved(<<"curl -Lo kind \"https://kind.sigs.k8s.io/dl/latest/kind-linux-amd64\" ">>
                    \o AndAnd \o <<" chmod +x kind ">> \o AndAnd
                    \o <<" sudo install kind /usr/local/bin/ ">> \o AndAnd \o <<" rm kind">>)
      [] OTHER -> IF im = "main_cjs" THEN UnsupportedPlatform ELSE Resolved(<<>>)

installKindCommand(im, plat, pm) ==
    IF im = "main_cjs"
    THEN CASE plat = "darwin" -> Resolved(<<"brew install kind">>)
           [] plat = "win32"  ->
                IF pm = "winget"
                THEN Resolved(<<"winget install --id Kubernetes.Kind" \o WingetFlags>>)
                ELSE Resolved(<<"choco install kind -y">>)
           [] plat = "linux"  ->
                Resolved(<<"curl -Lo kind \"https://kind.sigs.k8s.io/dl/latest/kind-linux-amd64\" ">>
                         \o AndAnd \o <<" chmod +x kind ">> \o AndAnd
                         \o <<" sudo install kind /usr/local/bin/ ">> \o AndAnd \o <<" rm kind">>)
           [] OTHER -> UnsupportedPlatform
    ELSE CASE plat = "darwin" -> Resolved(<<"brew install kind">>)
           [] plat = "win32"  -> Resolved(<<"choco install kind -y">>)
           [] plat = "linux"  ->
                Resolved(<<"curl -Lo ./kind https://kind.sigs.k8s.io/dl/latest/kind-linux-amd64 ">>
                         \o AndAnd \o <<" chmod +x ./kind ">> \o AndAnd
                         \o <<" sudo mv ./kind /usr/local/bin/kind">>)
           [] OTHER -> Resolved(<<>>)

(* installHelmCommand giving up on Windows when neither winget nor         *)
(* Chocolatey was detected.                                                *)
installHelmCommandKnownOnly(im, plat, pm) ==
    CASE plat = "darwin" -> Resolved(<<"brew install helm">>)
      [] plat = "win32"  ->
           IF pm = "winget"
           THEN Resolved(IF im = "main_cjs"
                         THEN <<"winget install --id Helm.Helm" \o WingetFlags>>
                         ELSE <<"winget install Helm.Helm">>)
           ELSE IF pm = "choco"
                THEN Resolved(<<"choco install kubernetes-helm -y">>)
                ELSE UnsupportedPlatform
      [] plat = "linux"  ->
           Resolved(<<"curl https://raw.githubusercontent.com/helm/helm/main/scripts/get-helm-3 ",
                      "|", " bash">>)
      [] OTHER -> IF im = "main_cjs" THEN UnsupportedPlatform ELSE Resolved(<<>>)

installHelmCommand(im, plat, pm) ==
    IF im = "main_cjs"
    THEN CASE plat = "darwin" -> Resolved(<<"brew install helm">>)
           [] plat = "win32"  ->
                IF pm = "winget"
                THEN Resolved(<<"winget install --id Helm.Helm" \o WingetFlags>>)
                ELSE Resolved(<<"choco install kubernetes-helm -y">>)
           [] plat = "linux"  ->
                Resolved(<<"curl https://raw.githubusercontent.com/helm/helm/main/scripts/get-helm-3 ",
                           "|", " bash">>)
           [] OTHER -> UnsupportedPlatform
    ELSE CASE plat = "darwin" -> Resolved(<<"brew install helm">>)
           [] plat = "win32"  ->
                IF pm = "winget"
                THEN Resolved(<<"winget install Helm.Helm">>)
                ELSE Resolved(<<"choco install kubernetes-helm -y">>)
           [] plat = "linux"  ->
                Resolved(<<"curl https://raw.githubusercontent.com/helm/helm/main/scripts/get-helm-3 ",
                           "|", " bash">>)
           [] OTHER -> Resolved(<<>>)

(* The components install-component has a case for.                        *)
InstallableComponents == {"docker", "kubectl", "minikube", "kind", "helm"}

InstallCommand(im, component, plat, pm) ==
    CASE component = "docker"   -> installDockerCommand(im, plat, pm)
      [] component = "kubectl"  -> installKubectlCommand(im, plat, pm)
      [] component = "minikube" -> installMinikubeCommand(im, plat, pm)
      [] component = "kind"     -> installKindCommand(im, plat, pm)
      [] component = "helm"     -> installHelmCommand(im, plat, pm)

(* The timeout option each install passes to executeCommand.               *)
InstallTimeoutOption(component) ==
    IF component = "docker" THEN LongTimeout ELSE NoTimeout

(* Display names used in the messages of the install operations.           *)
DisplayName(component) ==
    CASE component = "docker"   -> "Docker"
      [] component = "kubectl"  -> "kubectl"
      [] component = "minikube" -> "Minikube"
      [] component = "kind"     -> "Kind"
      [] component = "helm"     -> "Helm"

(* The switch of updatePackageManager.                                     *)
updatePackageManagerCommand(im, pm) ==
    CASE pm = "homebrew" -> Resolved(<<"brew update">>)
      [] pm = "apt"      -> Resolved(<<"sudo apt update">>)
      [] pm = "yum"      -> Resolved(<<"sudo yum update -y">>)
      [] pm = "dnf"      -> Resolved(<<"sudo dnf update -y">>)
      [] pm = "pacman"   -> Resolved(<<"sudo pacman -Sy">>)
      [] pm = "winget"   -> IF im = "main_cjs"
                            THEN Resolved(<<"winget upgrade --all --silent">>)
                            ELSE Resolved(<<"winget upgrade --all">>)
      [] pm = "choco"    -> Resolved(<<"choco upgrade all -y">>)
      [] OTHER           -> UnsupportedPlatform

(* The six version checks of checkPrerequisites, in the order they run.    *)
CheckList ==
    << [key |-> "docker",   command |-> <<"docker --version">>],
       [key |-> "kubectl",  command |-> <<"kubectl version --client">>],
       [key |-> "helm",     command |-> <<"helm version">>],
       [key |-> "git",      command |-> <<"git --version">>],
       [key |-> "minikube", command |-> <<"minikube version">>],
       [key |-> "kind",     command |-> <<"kind version">>] >>

----------------------------------------------------------------------------
(* Values handed around by the installer.                                  *)

(* Output texts an external command can leave on stdout or stderr.         *)
Texts ==
    { <<>>,
      <<"Package is ", "already installed">>,
      <<"No available upgrade", " found.">>,
      <<"E: Unable to locate package">> }

(* error.code of the exec callback: a number, null, or an error name.      *)
IntCode(n)  == [type |-> "int",    int |-> n, str |-> ""]

NullCode    == [type |-> "null",   int |-> 0, str |-> ""]

StrCode(s)  == [type |-> "string", int |-> 0, str |-> s]

(* Exit codes a failing command is given in the model.                     *)
FailureExitCodes == {1}

NoResult == [shape |-> "none"]

NoExec == [success |-> FALSE, output |-> <<>>, error |-> <<>>, code |-> NullCode]

NoChild ==
    [kind |-> "none", command |-> <<>>, fullCommand |-> <<>>, shell |-> "",
     timeout |-> NoTimeout, hung |-> FALSE, separate |-> FALSE]

(* { success, skip, message, output, error }; skip = FALSE stands for a    *)
(* result object without the skip property.                                *)
Outcome(success, skip, message, output, error) ==
    [shape |-> "outcome", success |-> success, skip |-> skip,
     message |-> message, output |-> output, error |-> error]

----------------------------------------------------------------------------
(* How a command line is handed to the shell.                              *)

DefaultShell(plat) == IF plat = "win32" THEN "cmd.exe" ELSE "/bin/sh"

(* checkCommandSync and checkCommand build the same command line.          *)
checkFullCommand(im, plat, command) ==
    IF im = "main_cjs" /\ plat = "win32"
    THEN <<"cmd /c ">> \o Escape(command)
    ELSE command

checkShell(im, plat) ==
    IF im = "main_cjs"
    THEN (IF plat = "win32" THEN "cmd.exe" ELSE "bash")
    ELSE DefaultShell(plat)

checkTimeout(im) == IF im = "main_cjs" THEN CheckTimeoutCjs ELSE CheckTimeoutLegacy

(* execSync of checkCommandSync is given no timeout option.                *)
checkSyncTimeout(im) == NoTimeout

(* executeCommand: `cmd /c ${command}` on Windows, the command elsewhere.  *)
execFullCommand(im, plat, command) ==
    IF im = "main_cjs" /\ plat = "win32"
    THEN <<"cmd /c ">> \o command
    ELSE command

execShell(im, plat) == checkShell(im, plat)

(* timeout: options.timeout || 300000, ...options                          *)
execTimeout(optTimeout) ==
    IF optTimeout # NoTimeout THEN optTimeout ELSE DefaultTimeout

(* The command line handed to exec is a string: always for the template   *)
(* literal built on Windows by main.cjs, else when the argument is one.    *)
execIsString(im, plat, isString) ==
    (im = "main_cjs" /\ plat = "win32") \/ isString

(* child_process.exec throws, before any process is started, when its      *)
(* command argument is not a string or is the empty string.                *)
ExecThrows(fullCommand, fullIsString) ==
    ~fullIsString \/ fullCommand = <<>>

(* Whether the process doing the work is a descendant of the shell that    *)
(* exec started (TRUE) or the shell process itself (FALSE).                *)
SeparateWorker(plat, command) ==
    IF plat = "win32" \/ IsCompound(command) THEN {TRUE} ELSE BOOLEAN

----------------------------------------------------------------------------
(* Results built by the operations.                                        *)

AlreadyInstalledText(text) ==
    Includes(text, "already installed") \/ Includes(text, "No available upgrade")

(* installResult with the test of the stderr text left out: any failure    *)
(* that wrote to stderr is taken for an installed package.                 *)
installResultAnyStderr(im, component, res) ==
    IF im = "main_cjs" /\ ~res.success /\ res.error # <<>>
    THEN Outcome(TRUE, FALSE, DisplayName(component) \o " is already installed",
                 res.output, res.error)
    ELSE Outcome(res.success, FALSE,
                 IF res.success
                 THEN DisplayName(component) \o " installed successfully"
                 ELSE DisplayName(component) \o " installation failed",
                 res.output, res.error)

(* installResult without the reclassification of a failure.                *)
installResultNoReclassify(im, component, res) ==
    Outcome(res.success, FALSE,
            IF res.success
            THEN DisplayName(component) \o " installed successfully"
            ELSE DisplayName(component) \o " installation failed",
            res.output, res.error)

(* The tail of installDocker .. installHelm: main.cjs turns a failure      *)
(* whose stderr names an installed package into a success.                 *)
installResult(im, component, res) ==
    IF im = "main_cjs" /\ ~res.success
       /\ res.error # <<>> /\ AlreadyInstalledText(res.error)
    THEN Outcome(TRUE, FALSE, DisplayName(component) \o " is already installed",
                 res.output, res.error)
    ELSE Outcome(res.success, FALSE,
                 IF res.success
                 THEN DisplayName(component) \o " installed successfully"
                 ELSE DisplayName(component) \o " installation failed",
                 res.output, res.error)

unsupportedResult(plat) ==
    Outcome(FALSE, FALSE, "Unsupported platform: " \o plat, <<>>,
            <<"Installation not supported on " \o plat>>)

installHomebrewResult(res) ==
    Outcome(res.success, FALSE,
            IF res.success THEN "Homebrew installed successfully"
                           ELSE "Homebrew installation failed",
            res.output, res.error)

updatePackageManagerResult(res) ==
    Outcome(res.success, FALSE,
            IF res.success THEN "Package manager updated"
                           ELSE "Failed to update package manager",
            res.output, res.error)

startMinikubeResult(res) ==
    Outcome(res.success, FALSE,
            IF res.success THEN "Minikube cluster started"
                           ELSE "Failed to start Minikube",
            res.output, res.error)

startKindResult(res) ==
    Outcome(res.success, FALSE,
            IF res.success THEN "Kind cluster created"
                           ELSE "Failed to create Kind cluster",
            res.output, res.error)

executeCommandResult(res) ==
    [shape |-> "exec", success |-> res.success, output |-> res.output,
     error |-> res.error, code |-> res.code]

checkPrerequisitesResult(cs) ==
    [shape |-> "checks",
     installed |-> [k \in {CheckList[i].key : i \in 1..Len(CheckList)} |->
                      cs[CHOOSE i \in 1..Len(CheckList) : CheckList[i].key = k]]]

(* verifyInstallationResult with the cluster flag gated by the two probes. *)
verifyInstallationResultGated(cs, res) ==
    [shape |-> "verify", docker |-> cs[1], kubectl |-> cs[2],
     cluster |-> res.success /\ cs[1] /\ cs[2]]

verifyInstallationResult(cs, res) ==
    [shape |-> "verify", docker |-> cs[1], kubectl |-> cs[2], cluster |-> res.success]

detectPackageManagerResult(pm, plat) ==
    [shape |-> "pm", packageManager |-> pm, platform |-> plat]

(* The object the exec callback of executeCommand resolves with.           *)
(*   success: !error, output: stdout, error: stderr,                       *)
(*   code: error ? error.code : 0                                          *)
execCallback(how, exitCode, out, err) ==
    CASE how = "exit0"      -> [success |-> TRUE,  output |-> out, error |-> err,
                                code |-> IntCode(0)]
      [] how = "exitN"      -> [success |-> FALSE, output |-> out, error |-> err,
                                code |-> IntCode(exitCode)]
      [] how = "timeout"    -> [success |-> FALSE, output |-> out, error |-> err,
                                code |-> NullCode]
      [] how = "maxBuffer"  -> [success |-> FALSE, output |-> out, error |-> err,
                                code |-> StrCode("ERR_CHILD_PROCESS_STDIO_MAXBUFFER")]
      [] how = "spawnError" -> [success |-> FALSE, output |-> <<>>, error |-> <<>>,
                                code |-> StrCode("ENOENT")]

(* checkCallback that takes any exit of the command, whatever its code,    *)
(* for an installed component.                                             *)
checkCallbackAnyExit(how) == how \in {"exit0", "exitN"}

(* installed: !error of the exec callback of checkCommand.                 *)
checkCallback(how) == (how = "exit0")

(* Ways an asynchronous child can end other than by the timeout.           *)
EndKinds == {"exit0", "exitN", "maxBuffer", "spawnError"}

(* The steps of a command line the shell joins with "&&": each one runs    *)
(* only after the one before it exited with code zero.                     *)
RECURSIVE Steps(_)
Steps(command) ==
    IF \E i \in 1..(Len(command) - 1) : command[i] = "&" /\ command[i + 1] = "&"
    THEN LET i == CHOOSE j \in 1..(Len(command) - 1) :
                      /\ command[j] = "&" /\ command[j + 1] = "&"
                      /\ \A k \in 1..(j - 1) : ~(command[k] = "&" /\ command[k + 1] = "&")
         IN  <<SubSeq(command, 1, i - 1)>> \o Steps(SubSeq(command, i + 2, Len(command)))
    ELSE <<command>>

(* How many steps had completed when the command ended as `how`: all of    *)
(* them when the shell exited with code zero, none when no shell started,  *)
(* otherwise the ones before the step that failed or was cut short.        *)
StepsCompleted(command, how) ==
    CASE how = "exit0"      -> {Len(Steps(command))}
      [] how = "spawnError" -> {0}
      [] OTHER              -> 0..(Len(Steps(command)) - 1)

(* What the steps of the Linux download commands do to the files they     *)
(* name: curl -o / -O / -Lo writes the file, rm and mv take it away.       *)
StepWrites(step) ==
    CASE step = <<"curl -fsSL https://get.docker.com -o get-docker.sh ">> -> {"get-docker.sh"}
      [] step = <<"curl -fsSL https://get.docker.com -o /tmp/get-docker.sh ">> ->
             {"/tmp/get-docker.sh"}
      [] step = <<"curl -LO \"https://dl.k8s.io/release/$(curl -L -s https://dl.k8s.io/release/stable.txt)/bin/linux/amd64/kubectl\" ">>
             -> {"kubectl"}
      [] step = <<"curl -LO https://storage.googleapis.com/minikube/releases/latest/minikube-linux-amd64 ">>
             -> {"minikube-linux-amd64"}
      [] step = <<"curl -Lo kind \"https://kind.sigs.k8s.io/dl/latest/kind-linux-amd64\" ">>
             -> {"kind"}
      [] step = <<"curl -Lo ./kind https://kind.sigs.k8s.io/dl/latest/kind-linux-amd64 ">>
             -> {"kind"}
      [] OTHER -> {}

StepRemoves(step) ==
    CASE step = <<" rm get-docker.sh">>                  -> {"get-docker.sh"}
      [] step = <<" rm kubectl">>                        -> {"kubectl"}
      [] step = <<" rm minikube-linux-amd64">>           -> {"minikube-linux-amd64"}
      [] step = <<" rm kind">>                           -> {"kind"}
      [] step = <<" sudo mv ./kind /usr/local/bin/kind">> -> {"kind"}
      [] OTHER -> {}

(* The step that installs what was downloaded.                             *)
StepInstalls(step) ==
    step \in { <<" sudo sh get-docker.sh ">>,
               <<" sudo sh /tmp/get-docker.sh">>,
               <<" sudo install kubectl /usr/local/bin/ ">>,
               <<" sudo install -o root -g root -m 0755 kubectl /usr/local/bin/kubectl">>,
               <<" sudo install minikube-linux-amd64 /usr/local/bin/minikube ">>,
               <<" sudo install minikube-linux-amd64 /usr/local/bin/minikube">>,
               <<" sudo install kind /usr/local/bin/ ">>,
               <<" sudo mv ./kind /usr/local/bin/kind">> }

(* The files the first `done` steps of a command wrote and did not remove. *)
RECURSIVE FilesLeft(_, _)
FilesLeft(command, done) ==
    IF done = 0 THEN {}
    ELSE LET step == Steps(command)[done] IN
         (FilesLeft(command, done - 1) \cup StepWrites(step)) \ StepRemoves(step)

----------------------------------------------------------------------------
(* Requests the renderer can send.                                         *)

Operations ==
    {"detect-package-manager", "check-prerequisites", "install-homebrew",
     "update-package-manager", "install-component", "start-cluster",
     "verify-installation", "execute-command"}

ComponentArgs == InstallableComponents \cup {"git", "not-a-real-component"}

ClusterArgs == {"minikube", "kind", "bogus"}

(* Arguments of execute-command: the string, or the text of a value that   *)
(* is not a string (isString = FALSE).                                     *)
CommandArgs ==
    { [isString |-> TRUE,  cmd |-> <<"kubectl get nodes">>],
      [isString |-> TRUE,  cmd |-> <<"echo a ", "&", "&", " echo b ", ">", " out.txt">>],
      [isString |-> TRUE,  cmd |-> <<"sort ", "<", " in.txt">>],
      [isString |-> TRUE,  cmd |-> <<>>],
      [isString |-> FALSE, cmd |-> <<"42">>] }

Request(op, arg, isString, cmd) ==
    [op |-> op, arg |-> arg, isString |-> isString, cmd |-> cmd]

NoRequest == Request("none", "", TRUE, <<>>)

Requests ==
    { Request(op, "", TRUE, <<>>) :
        op \in Operations \ {"install-component", "start-cluster", "execute-command"} }
    \cup { Request("install-component", a, TRUE, <<>>) : a \in ComponentArgs }
    \cup { Request("start-cluster", a, TRUE, <<>>) : a \in ClusterArgs }
    \cup { Request("execute-command", "", a.isString, a.cmd) : a \in CommandArgs }

----------------------------------------------------------------------------
(* The state machine.                                                      *)

Host == <<impl, platform, markerFiles>>

(* The state of the renderer process.                                      *)
Wizard == <<electronAPI, currentStep, osInfo, prerequisites, loading, detected,
            installing, components, currentIndex, isComplete, timer,
            selectedCluster, setupStatus, inflight, handed, started, finished,
            homebrewRequested>>

(* The state of the main process while a request is served.                *)
Main == <<pc, req, packageManager, child, spawned, execCalls, checks, execResult,
          ended, workerAlive, result, probes, checkExits, prevDockerOk, stepsDone,
          prevApt>>

(* prerequisites of App before setPrerequisites: null.                     *)
NullPrerequisites == [known |-> FALSE, installed |-> {}]

(* No setTimeout of installComponent is pending.                           *)
NoTimer == -1

(* The marker files a host of the platform can have.                       *)
HostMarkers(plat) == IF plat = "linux" THEN SUBSET MarkerFileNames ELSE {{}}

(* What the marker files of the host can be when the next request arrives: *)
(* as they were, or with /etc/debian_version removed or created.           *)
MarkersAtNextCall(plat, markers) ==
    IF plat = "linux"
    THEN {markers,
          IF "/etc/debian_version" \in markers
          THEN markers \ {"/etc/debian_version"}
          ELSE markers \cup {"/etc/debian_version"}}
    ELSE {markers}

(* The renderer before the first user action: the useState initial values *)
(* of App (step 1 shows WelcomeStep, which has no state of its own).       *)
WizardStart ==
    /\ currentStep = 1
    /\ osInfo = "null"
    /\ prerequisites = NullPrerequisites
    /\ loading = TRUE
    /\ detected = FALSE
    /\ installing = FALSE
    /\ components = <<>>
    /\ currentIndex = -1
    /\ isComplete = FALSE
    /\ timer = NoTimer
    /\ selectedCluster = "null"
    /\ setupStatus = "idle"
    /\ inflight = <<>>
    /\ handed = NullPrerequisites
    /\ started = <<>>
    /\ finished = {}
    /\ homebrewRequested = FALSE

(* No request has reached the main process.                                *)
MainStart ==
    /\ pc = "idle"
    /\ req = NoRequest
    /\ packageManager = "none"
    /\ child = NoChild
    /\ spawned = 0
    /\ execCalls = 0
    /\ checks = <<>>
    /\ execResult = NoExec
    /\ ended = "none"
    /\ workerAlive = FALSE
    /\ result = NoResult
    /\ probes = <<>>
    /\ checkExits = <<>>
    /\ prevDockerOk = FALSE
    /\ stepsDone = 0
    /\ prevApt = FALSE

Init ==
    /\ impl \in Impls
    /\ platform \in Platforms
    /\ markerFiles \in HostMarkers(platform)
    /\ MainStart
    /\ electronAPI = TRUE
    /\ WizardStart

Ctl(p, c, s, e, r) ==
    /\ pc' = p
    /\ child' = c
    /\ spawned' = s
    /\ execCalls' = e
    /\ result' = r

(* return <value> of a handler.                                            *)
Return(r) == Ctl("returned", NoChild, spawned, execCalls, r)

(* execSync(fullCommand, ...) of checkCommandSync.                         *)
StartSync(command) ==
    \E h \in BOOLEAN :
        Ctl("probing",
            [kind |-> "sync", command |-> command,
             fullCommand |-> checkFullCommand(impl, platform, command),
             shell |-> checkShell(impl, platform),
             timeout |-> checkSyncTimeout(impl), hung |-> h, separate |-> FALSE],
            spawned + 1, execCalls, result)

(* exec(fullCommand, {timeout: ...}, callback) of checkCommand.            *)
StartCheck(command) ==
    \E h \in BOOLEAN :
        Ctl("checking",
            [kind |-> "check", command |-> command,
             fullCommand |-> checkFullCommand(impl, platform, command),
             shell |-> checkShell(impl, platform),
             timeout |-> checkTimeout(impl), hung |-> h, separate |-> FALSE],
            spawned + 1, execCalls, result)

(* exec(fullCommand, {...}, callback) of executeCommand; a throw of exec   *)
(* inside the promise executor rejects the promise the handler awaits.     *)
StartExec(command, isString, optTimeout) ==
    IF ExecThrows(execFullCommand(impl, platform, command),
                  execIsString(impl, platform, isString))
    THEN Ctl("rejected", NoChild, spawned, execCalls + 1, NoResult)
    ELSE \E h \in BOOLEAN, sep \in SeparateWorker(platform, command) :
            Ctl("executing",
                [kind |-> "exec", command |-> command,
                 fullCommand |-> execFullCommand(impl, platform, command),
                 shell |-> execShell(impl, platform),
                 timeout |-> execTimeout(optTimeout), hung |-> h, separate |-> sep],
                spawned + 1, execCalls + 1, result)

(* The request served was install-component(docker) and its command exited *)
(* with code zero or failed with "already installed" on stderr.            *)
DockerInstallRepeatable ==
    /\ pc = "returned"
    /\ req.op = "install-component"
    /\ req.arg = "docker"
    /\ execCalls = 1
    /\ \/ ended = "exit0"
       \/ ended # "exit0" /\ Includes(execResult.error, "already installed")

(* A request arrives: ipcMain.handle(channel, handler) runs the handler,   *)
(* on the host as it is by then (its marker files may have changed since  *)
(* the request before).                                                    *)
Invoke(r) ==
    /\ pc \in {"idle", "returned", "rejected"}
    /\ req' = r
    /\ Ctl("construct", NoChild, 0, 0, NoResult)
    /\ packageManager' = "none"
    /\ checks' = <<>>
    /\ execResult' = NoExec
    /\ ended' = "none"
    /\ workerAlive' = FALSE
    /\ probes' = <<>>
    /\ checkExits' = <<>>
    /\ prevDockerOk' = (DockerInstallRepeatable /\ result.success)
    /\ stepsDone' = 0
    /\ prevApt' = /\ pc = "returned"
                  /\ req.op = "detect-package-manager"
                  /\ result.packageManager = "apt"
    /\ markerFiles' \in MarkersAtNextCall(platform, markerFiles)
    /\ UNCHANGED <<impl, platform, Wizard>>

(* detectLinuxPackageManager with the arch marker tested before the redhat *)
(* one.                                                                    *)
detectLinuxPackageManagerArchFirst(markers) ==
    CASE "/etc/debian_version" \in markers -> "apt"
      [] "/etc/arch-release" \in markers   -> "pacman"
      [] "/etc/redhat-release" \in markers -> "yum"
      [] OTHER                             -> "probe-dnf"

(* detectLinuxPackageManager up to the dnf probe.                          *)
detectLinuxPackageManager(markers) ==
    CASE "/etc/debian_version" \in markers -> "apt"
      [] "/etc/redhat-release" \in markers -> "yum"
      [] "/etc/arch-release" \in markers   -> "pacman"
      [] OTHER                             -> "probe-dnf"

(* The constructor reusing the apt answer of the detect-package-manager    *)
(* call before it instead of detecting again.                              *)
ConstructCached ==
    /\ pc = "construct"
    /\ CASE prevApt ->
              /\ packageManager' = "apt"
              /\ Ctl("handler", NoChild, spawned, execCalls, result)
         [] ~prevApt /\ platform = "darwin" ->
              /\ packageManager' = "homebrew"
              /\ Ctl("handler", NoChild, spawned, execCalls, result)
         [] ~prevApt /\ platform = "win32" ->
              /\ packageManager' = packageManager
              /\ StartSync(<<"winget --version">>)
         [] ~prevApt /\ platform = "linux" ->
              IF detectLinuxPackageManager(markerFiles) = "probe-dnf"
              THEN /\ packageManager' = packageManager
                   /\ StartSync(<<"dnf --version">>)
              ELSE /\ packageManager' = detectLinuxPackageManager(markerFiles)
                   /\ Ctl("handler", NoChild, spawned, execCalls, result)
         [] OTHER ->
              /\ packageManager' = "unknown"
              /\ Ctl("handler", NoChild, spawned, execCalls, result)
    /\ UNCHANGED <<Host, Wizard, prevApt, prevDockerOk, stepsDone, req, checks, execResult, ended, workerAlive, probes, checkExits>>

(* new KubernetesInstaller(): detectPackageManager up to its first probe.  *)
Construct ==
    /\ pc = "construct"
    /\ CASE platform = "darwin" ->
              /\ packageManager' = "homebrew"
              /\ Ctl("handler", NoChild, spawned, execCalls, result)
         [] platform = "win32" ->
              /\ packageManager' = packageManager
              /\ StartSync(<<"winget --version">>)
         [] platform = "linux" ->
              IF detectLinuxPackageManager(markerFiles) = "probe-dnf"
              THEN /\ packageManager' = packageManager
                   /\ StartSync(<<"dnf --version">>)
              ELSE /\ packageManager' = detectLinuxPackageManager(markerFiles)
                   /\ Ctl("handler", NoChild, spawned, execCalls, result)
         [] OTHER ->
              /\ packageManager' = "unknown"
              /\ Ctl("handler", NoChild, spawned, execCalls, result)
    /\ UNCHANGED <<Host, Wizard, prevApt, prevDockerOk, stepsDone, req, checks, execResult, ended, workerAlive, probes, checkExits>>

(* detectPackageManager probing Chocolatey whatever the winget probe said. *)
detectPackageManagerBothProbes(im, command, ok) ==
    CASE command = <<"winget --version">> ->
             [pm |-> "none", probe |-> <<"choco --version">>]
      [] command = <<"choco --version">> ->
             [pm |-> IF ok THEN "choco" ELSE "unknown", probe |-> <<>>]
      [] command = <<"dnf --version">> ->
             [pm |-> IF ok THEN "dnf" ELSE "unknown", probe |-> <<>>]

(* What detectPackageManager does with the answer of a probe: the package  *)
(* manager it settles on, or the next probe.                               *)
detectPackageManager(im, command, ok) ==
    CASE command = <<"winget --version">> ->
             IF ok THEN [pm |-> "winget", probe |-> <<>>]
             ELSE IF im = "main_cjs"
                  THEN [pm |-> "none", probe |-> <<"choco --version">>]
                  ELSE [pm |-> "choco", probe |-> <<>>]
      [] command = <<"choco --version">> ->
             [pm |-> IF ok THEN "choco" ELSE "unknown", probe |-> <<>>]
      [] command = <<"dnf --version">> ->
             [pm |-> IF ok THEN "dnf" ELSE "unknown", probe |-> <<>>]

(* checkCommandSync returns true (execSync returned) or false (it threw).  *)
SyncContinue(ok) ==
    LET next == detectPackageManager(impl, child.command, ok) IN
    /\ IF next.probe # <<>>
       THEN /\ packageManager' = packageManager
            /\ StartSync(next.probe)
       ELSE /\ packageManager' = next.pm
            /\ Ctl("handler", NoChild, spawned, execCalls, result)
    /\ probes' = Append(probes, [command |-> child.command, ok |-> ok])
    /\ UNCHANGED <<Host, Wizard, prevApt, prevDockerOk, stepsDone, req, checks, execResult, ended, workerAlive, checkExits>>

checkCommandSync(ok) ==
    /\ pc = "probing"
    /\ ~child.hung
    /\ SyncContinue(ok)

(* The body of each ipcMain handler after the installer is constructed,   *)
(* up to its first await or its return.                                    *)
HandleInstallComponent ==
    IF req.arg \notin InstallableComponents
    THEN Return(Outcome(FALSE, FALSE, "Unknown component", <<>>, <<>>))
    ELSE LET r == InstallCommand(impl, req.arg, platform, packageManager) IN
         IF r.early
         THEN Return(unsupportedResult(platform))
         ELSE StartExec(r.command, TRUE, InstallTimeoutOption(req.arg))

HandleStartCluster ==
    CASE req.arg = "minikube" -> StartExec(<<"minikube start">>, TRUE, LongTimeout)
      [] req.arg = "kind"     -> StartExec(<<"kind create cluster">>, TRUE, NoTimeout)
      [] OTHER -> Return(Outcome(FALSE, FALSE, "Unknown cluster type", <<>>, <<>>))

(* installHomebrew without the test of the platform.                       *)
HandleInstallHomebrewAnyPlatform == StartCheck(<<"brew --version">>)

HandleInstallHomebrew ==
    IF platform # "darwin"
    THEN Return(Outcome(TRUE, TRUE, "Not macOS, skipping Homebrew installation",
                        <<>>, <<>>))
    ELSE StartCheck(<<"brew --version">>)

HandleUpdatePackageManager ==
    LET r == updatePackageManagerCommand(impl, packageManager) IN
    IF r.early
    THEN Return(Outcome(FALSE, FALSE, "Unknown package manager", <<>>, <<>>))
    ELSE StartExec(r.command, TRUE, NoTimeout)

Handle ==
    /\ pc = "handler"
    /\ CASE req.op = "detect-package-manager" ->
              Return(detectPackageManagerResult(packageManager, platform))
         [] req.op = "check-prerequisites"    -> StartCheck(CheckList[1].command)
         [] req.op = "verify-installation"    -> StartCheck(CheckList[1].command)
         [] req.op = "install-homebrew"       -> HandleInstallHomebrew
         [] req.op = "update-package-manager" -> HandleUpdatePackageManager
         [] req.op = "install-component"      -> HandleInstallComponent
         [] req.op = "start-cluster"          -> HandleStartCluster
         [] req.op = "execute-command"        ->
              StartExec(req.cmd, req.isString, NoTimeout)
    /\ workerAlive' = (pc' = "executing")
    /\ UNCHANGED <<Host, Wizard, prevApt, prevDockerOk, stepsDone, req, packageManager, checks, execResult, ended, probes, checkExits>>

(* The handler resumes after an awaited checkCommand resolved.             *)
AfterCheck(installed) ==
    /\ CASE req.op \in {"check-prerequisites", "verify-installation"} ->
              LET cs == Append(checks, installed) IN
              /\ checks' = cs
              /\ IF Len(cs) < Len(CheckList)
                 THEN StartCheck(CheckList[Len(cs) + 1].command)
                 ELSE IF req.op = "check-prerequisites"
                      THEN Return(checkPrerequisitesResult(cs))
                      ELSE StartExec(<<"kubectl cluster-info">>, TRUE, NoTimeout)
         [] req.op = "install-homebrew" ->
              /\ checks' = checks
              /\ IF installed
                 THEN Return(Outcome(TRUE, TRUE, "Homebrew already installed",
                                     <<>>, <<>>))
                 ELSE StartExec(HomebrewScript, TRUE, LongTimeout)
    /\ workerAlive' = (pc' = "executing")
    /\ UNCHANGED <<Host, Wizard, prevApt, prevDockerOk, stepsDone, req, packageManager, execResult, ended, probes>>

(* The handler resumes after the awaited executeCommand resolved.          *)
AfterExec(res, how, alive) ==
    /\ execResult' = res
    /\ ended' = how
    /\ workerAlive' = alive
    /\ Return(CASE req.op = "install-component"      ->
                      installResult(impl, req.arg, res)
                [] req.op = "install-homebrew"       -> installHomebrewResult(res)
                [] req.op = "update-package-manager" -> updatePackageManagerResult(res)
                [] req.op = "start-cluster"          ->
                      IF req.arg = "minikube" THEN startMinikubeResult(res)
                                              ELSE startKindResult(res)
                [] req.op = "verify-installation"    ->
                      verifyInstallationResult(checks, res)
                [] req.op = "execute-command"        -> executeCommandResult(res))
    /\ UNCHANGED <<Host, Wizard, prevApt, prevDockerOk, req, packageManager, checks, probes, checkExits>>

(* The child of checkCommand ends by itself.                               *)
checkCommand(how) ==
    /\ pc = "checking"
    /\ ~child.hung
    /\ AfterCheck(checkCallback(how))
    /\ checkExits' = Append(checkExits, how = "exit0")

(* The child of executeCommand ends by itself, or exec ends it because the *)
(* output passed maxBuffer (it kills the shell it started).                *)
executeCommand(how, exitCode, out, err) ==
    /\ pc = "executing"
    /\ ~child.hung
    /\ AfterExec(execCallback(how, exitCode, out, err), how,
                 how = "maxBuffer" /\ child.separate)
    /\ stepsDone' \in StepsCompleted(child.command, how)

(* The timeout of execSync / exec elapses before the child has exited: the *)
(* child (the shell) is killed and the call fails.                         *)
TimerExpires ==
    /\ pc \in {"probing", "checking", "executing"}
    /\ child.timeout # NoTimeout
    /\ CASE child.kind = "sync"  -> SyncContinue(FALSE)
         [] child.kind = "check" ->
              /\ AfterCheck(checkCallback("timeout"))
              /\ checkExits' = Append(checkExits, FALSE)
         [] child.kind = "exec"  ->
              /\ \E out \in Texts, err \in Texts :
                    AfterExec(execCallback("timeout", 0, out, err), "timeout",
                              child.separate)
              /\ stepsDone' \in StepsCompleted(child.command, "timeout")

(* A process that outlived the shell that started it runs to its end.      *)
WorkerExits ==
    /\ pc \in {"returned", "rejected"}
    /\ workerAlive
    /\ workerAlive' = FALSE
    /\ UNCHANGED <<Host, Wizard, prevApt, prevDockerOk, stepsDone, pc, req, packageManager, child, spawned, execCalls,
                   checks, execResult, ended, result, probes, checkExits>>

Next ==
    \/ \E r \in Requests : Invoke(r)
    \/ Construct
    \/ \E ok \in BOOLEAN : checkCommandSync(ok)
    \/ Handle
    \/ \E how \in EndKinds : checkCommand(how)
    \/ \E how \in EndKinds, c \in FailureExitCodes, out \in Texts, err \in Texts :
          executeCommand(how, c, out, err)
    \/ TimerExpires
    \/ WorkerExits

Spec == Init /\ [][Next]_vars

(* Every step the runtime can take is eventually taken; a process that     *)
(* never exits (child.hung) enables no step of its own.                    *)
FairSpec == Spec /\ WF_vars(Next)

TypeOK ==
    /\ impl \in Impls
    /\ platform \in Platforms
    /\ markerFiles \subseteq MarkerFileNames
    /\ pc \in {"idle", "construct", "probing", "handler", "checking",
               "executing", "returned", "rejected"}
    /\ spawned \in 0..9
    /\ execCalls \in 0..1
    /\ workerAlive \in BOOLEAN
    /\ stepsDone \in 0..4

----------------------------------------------------------------------------
(* The renderer: App and the steps of the wizard.                          *)

(* STEPS.length of App.                                                    *)
LastStep == 6

(* IPC calls the renderer may have pending at once in the model.           *)
MaxInFlight == 2

(* Hosts the wizard is run on in the model.                                *)
WizardPlatforms == {"darwin", "linux"}

(* Sets of installed components check-prerequisites answers with.          *)
ProbeAnswers ==
    { {},
      {"docker", "kubectl", "helm", "git", "minikube", "kind"},
      {"kubectl", "git", "kind"},
      {"docker", "git"} }

Pending(key) == [key |-> key, status |-> "pending"]

(* initializeComponents that queues Docker without looking at its probe.   *)
initializeComponentsDockerAlways(plat, api, pre) ==
    LET toInstall ==
            (IF plat = "darwin" /\ ~api THEN <<Pending("homebrew")>> ELSE <<>>)
         \o <<Pending("docker")>>
         \o (IF "kubectl" \notin pre.installed THEN <<Pending("kubectl")>> ELSE <<>>)
         \o (IF "minikube" \notin pre.installed /\ "kind" \notin pre.installed
             THEN <<Pending("minikube")>> ELSE <<>>)
         \o (IF "helm" \notin pre.installed THEN <<Pending("helm")>> ELSE <<>>)
    IN IF toInstall = <<>> THEN <<Pending("check")>> ELSE toInstall

(* initializeComponents: the queue built from the props of the step.       *)
initializeComponents(plat, api, pre) ==
    LET toInstall ==
            (IF plat = "darwin" /\ ~api THEN <<Pending("homebrew")>> ELSE <<>>)
         \o (IF "docker" \notin pre.installed THEN <<Pending("docker")>> ELSE <<>>)
         \o (IF "kubectl" \notin pre.installed THEN <<Pending("kubectl")>> ELSE <<>>)
         \o (IF "minikube" \notin pre.installed /\ "kind" \notin pre.installed
             THEN <<Pending("minikube")>> ELSE <<>>)
         \o (IF "helm" \notin pre.installed THEN <<Pending("helm")>> ELSE <<>>)
    IN IF toInstall = <<>> THEN <<Pending("check")>> ELSE toInstall

(* updateComponentStatus(index, status), index counted from 0.             *)
updateComponentStatus(comps, index, status) ==
    [comps EXCEPT ![index + 1].status = status]

(* ipcRenderer.invoke(channel, arg) by a mounted component.                *)
Issue(flight, op, arg, index) ==
    Append(flight, [op |-> op, arg |-> arg, index |-> index, live |-> TRUE])

(* The components that issued the pending calls have been unmounted.       *)
Stale(flight) == [i \in 1..Len(flight) |-> [flight[i] EXCEPT !.live = FALSE]]

Without(flight, i) == SubSeq(flight, 1, i - 1) \o SubSeq(flight, i + 1, Len(flight))

(* installComponent(index) up to its await: what it leaves behind.  The    *)
(* 'check' entry needs no call and goes on to its setTimeout at once.      *)
installComponent(api, comps, index, flight) ==
    IF ~api
    THEN [components |-> comps, timer |-> NoTimer, inflight |-> flight, ran |-> FALSE]
    ELSE LET key == comps[index + 1].key
             busy == updateComponentStatus(comps, index, "installing")
         IN CASE key = "homebrew" ->
                    [components |-> busy, timer |-> NoTimer,
                     inflight |-> Issue(flight, "install-homebrew", "", index),
                     ran |-> TRUE]
              [] key = "check" ->
                    [components |-> updateComponentStatus(comps, index, "success"),
                     timer |-> index + 1, inflight |-> flight, ran |-> TRUE]
              [] OTHER ->
                    [components |-> busy, timer |-> NoTimer,
                     inflight |-> Issue(flight, "install-component", key, index),
                     ran |-> TRUE]

(* What an IPC call can settle with: a value or a rejection.               *)
Value(success, skip, installed) ==
    [kind |-> "value", success |-> success, skip |-> skip, installed |-> installed]

Rejection == [kind |-> "rejected", success |-> FALSE, skip |-> FALSE, installed |-> {}]

Answers(op) ==
    {Rejection} \cup
    CASE op = "check-prerequisites" -> {Value(TRUE, FALSE, a) : a \in ProbeAnswers}
      [] op = "install-homebrew"    ->
             {Value(TRUE, TRUE, {}), Value(TRUE, FALSE, {}), Value(FALSE, FALSE, {})}
      [] op \in {"install-component", "start-cluster"} ->
             {Value(TRUE, FALSE, {}), Value(FALSE, FALSE, {})}
      [] OTHER -> {Value(TRUE, FALSE, {})}

(* The status installComponent gives the entry when its call has settled.  *)
settledStatus(a) ==
    IF a.kind = "value" /\ (a.success \/ a.skip)
    THEN IF a.skip THEN "skipped" ELSE "success"
    ELSE "error"

TerminalStatus == {"success", "skipped", "error"}

(* State of the steps that are not mounted: the useState initial values.   *)
StepState(ld, dt) ==
    /\ loading' = ld
    /\ detected' = dt

NoInstallation(flight) ==
    /\ installing' = FALSE
    /\ components' = <<>>
    /\ currentIndex' = -1
    /\ isComplete' = FALSE
    /\ timer' = NoTimer
    /\ handed' = NullPrerequisites
    /\ started' = <<>>
    /\ inflight' = flight

Cluster(selected, status) ==
    /\ selectedCluster' = selected
    /\ setupStatus' = status

(* InstallationStep mounts: its two mount effects run, initializeComponents *)
(* and then the effect of currentIndex = 0.                                 *)
MountInstallation(os, pre, flight) ==
    LET r == installComponent(electronAPI, initializeComponents(os, electronAPI, pre),
                              0, flight)
    IN /\ installing' = TRUE
       /\ components' = r.components
       /\ currentIndex' = 0
       /\ isComplete' = FALSE
       /\ timer' = r.timer
       /\ handed' = pre
       /\ started' = IF r.ran THEN <<0>> ELSE <<>>
       /\ inflight' = r.inflight

(* renderStep case 4: the step is rendered when both props are there.      *)
RenderInstallation(os, pre, flight) ==
    IF pre.known /\ os # "null"
    THEN MountInstallation(os, pre, flight)
    ELSE NoInstallation(flight)

(* What is recorded about the run for the properties.                      *)
Track ==
    /\ finished' = finished \cup
           {components'[i].key : i \in {j \in 1..Len(components') :
                                          components'[j].status \in TerminalStatus}}
    /\ homebrewRequested' =
           (homebrewRequested \/
            \E i \in 1..Len(inflight') : inflight'[i].op = "install-homebrew")

(* renderStep after setCurrentStep(step): the step shown before unmounts,  *)
(* the new one mounts and its mount effect runs.                           *)
Show(step, flight) ==
    /\ currentStep' = step
    /\ Cluster("null", "idle")
    /\ CASE step = 2 ->
              /\ StepState(TRUE, FALSE)
              /\ NoInstallation(IF electronAPI
                                THEN Issue(flight, "detect-os", "", 0) ELSE flight)
         [] step = 3 ->
              /\ StepState(TRUE, FALSE)
              /\ NoInstallation(IF electronAPI
                                THEN Issue(flight, "check-prerequisites", "", 0)
                                ELSE flight)
         [] step = 4 ->
              /\ StepState(TRUE, FALSE)
              /\ RenderInstallation(osInfo, prerequisites, flight)
         [] step = 6 ->
              /\ StepState(TRUE, FALSE)
              /\ NoInstallation(IF electronAPI
                                THEN Issue(flight, "verify-installation", "", 0)
                                ELSE flight)
         [] OTHER ->
              /\ StepState(TRUE, FALSE)
              /\ NoInstallation(flight)
    /\ Track
    /\ UNCHANGED <<Host, Main, electronAPI, osInfo, prerequisites>>

(* The button of the step shown that calls onNext is rendered.             *)
NextOffered ==
    CASE currentStep = 1 -> TRUE
      [] currentStep = 2 -> ~loading /\ detected
      [] currentStep = 3 -> ~loading
      [] currentStep = 4 -> installing /\ isComplete
      [] currentStep = 5 -> setupStatus \in {"success", "error"}
      [] OTHER -> FALSE

(* App.handleNext, called by the button of a step.                         *)
handleNext ==
    /\ NextOffered
    /\ Len(inflight) < MaxInFlight
    /\ IF currentStep < LastStep
       THEN Show(currentStep + 1, Stale(inflight))
       ELSE UNCHANGED vars

(* The Previous button is not disabled.                                    *)
PreviousEnabled == ~(currentStep = 1 \/ currentStep = 6)

(* handlePrevious without its test of currentStep behind a Previous button *)
(* that is never disabled.                                                 *)
handlePreviousUnguarded ==
    /\ Len(inflight) < MaxInFlight
    /\ Show(currentStep - 1, Stale(inflight))

(* App.handlePrevious, called by the Previous button.                      *)
handlePrevious ==
    /\ PreviousEnabled
    /\ Len(inflight) < MaxInFlight
    /\ IF currentStep > 1
       THEN Show(currentStep - 1, Stale(inflight))
       ELSE UNCHANGED vars

KeepInstallation(flight) ==
    /\ inflight' = flight
    /\ UNCHANGED <<installing, components, currentIndex, isComplete, timer, handed,
                   started>>

(* App re-renders after one of its states changed: at step 4 the           *)
(* InstallationStep mounts as soon as both of its props are there.         *)
Rerender(os, pre, flight) ==
    IF currentStep = 4 /\ ~installing
    THEN RenderInstallation(os, pre, flight)
    ELSE KeepInstallation(flight)

(* detectSystem of OSDetectionStep after one of its two awaits.  The       *)
(* function runs on when the step has been unmounted; only the setState    *)
(* calls of the step are lost then.                                        *)
detectSystem(c, a, rest) ==
    /\ CASE a.kind = "rejected" ->
              /\ loading' = IF c.live THEN FALSE ELSE loading
              /\ KeepInstallation(rest)
              /\ UNCHANGED <<detected, osInfo>>
         [] a.kind = "value" /\ c.op = "detect-os" ->
              /\ KeepInstallation(Append(rest, [c EXCEPT !.op = "detect-package-manager"]))
              /\ UNCHANGED <<loading, detected, osInfo>>
         [] a.kind = "value" /\ c.op = "detect-package-manager" ->
              /\ loading' = IF c.live THEN FALSE ELSE loading
              /\ detected' = IF c.live THEN TRUE ELSE detected
              /\ osInfo' = platform
              /\ Rerender(osInfo', prerequisites, rest)
    /\ UNCHANGED <<currentStep, prerequisites, selectedCluster, setupStatus>>

(* performChecks of PrerequisitesStep after its await.                     *)
performChecks(c, a, rest) ==
    /\ loading' = IF c.live THEN FALSE ELSE loading
    /\ prerequisites' = IF a.kind = "value"
                        THEN [known |-> TRUE, installed |-> a.installed]
                        ELSE prerequisites
    /\ Rerender(osInfo, prerequisites', rest)
    /\ UNCHANGED <<currentStep, osInfo, detected, selectedCluster, setupStatus>>

(* installComponent where a failure stops the queue: no setTimeout in the  *)
(* failure branches.                                                       *)
installComponentSettledStopOnError(c, a, rest) ==
    /\ inflight' = rest
    /\ IF c.live
       THEN /\ components' = updateComponentStatus(components, c.index, settledStatus(a))
            /\ timer' = IF settledStatus(a) = "error" THEN NoTimer ELSE c.index + 1
       ELSE UNCHANGED <<components, timer>>
    /\ UNCHANGED <<currentStep, osInfo, prerequisites, loading, detected, installing,
                   currentIndex, isComplete, handed, started, selectedCluster,
                   setupStatus>>

(* installComponent of InstallationStep after its await: the status of the *)
(* entry and the setTimeout of setCurrentIndex(index + 1).                 *)
installComponentSettled(c, a, rest) ==
    /\ inflight' = rest
    /\ IF c.live
       THEN /\ components' = updateComponentStatus(components, c.index, settledStatus(a))
            /\ timer' = c.index + 1
       ELSE UNCHANGED <<components, timer>>
    /\ UNCHANGED <<currentStep, osInfo, prerequisites, loading, detected, installing,
                   currentIndex, isComplete, handed, started, selectedCluster,
                   setupStatus>>

(* handleStartCluster of ClusterSetupStep after its await.                 *)
handleStartClusterSettled(c, a, rest) ==
    /\ setupStatus' = IF ~c.live THEN setupStatus
                      ELSE IF a.kind = "value" /\ a.success THEN "success" ELSE "error"
    /\ KeepInstallation(rest)
    /\ UNCHANGED <<currentStep, osInfo, prerequisites, loading, detected,
                   selectedCluster>>

(* verifyInstallation of VerificationStep after its await.                 *)
verifyInstallation(c, a, rest) ==
    /\ loading' = IF c.live THEN FALSE ELSE loading
    /\ KeepInstallation(rest)
    /\ UNCHANGED <<currentStep, osInfo, prerequisites, detected, selectedCluster,
                   setupStatus>>

(* The promise of a pending IPC call settles and the function awaiting it  *)
(* runs on.                                                                *)
Settle(i, a) ==
    /\ i \in 1..Len(inflight)
    /\ a \in Answers(inflight[i].op)
    /\ LET c == inflight[i]
           rest == Without(inflight, i)
       IN CASE c.op \in {"detect-os", "detect-package-manager"} -> detectSystem(c, a, rest)
            [] c.op = "check-prerequisites" -> performChecks(c, a, rest)
            [] c.op \in {"install-homebrew", "install-component"} ->
                   installComponentSettled(c, a, rest)
            [] c.op = "start-cluster" -> handleStartClusterSettled(c, a, rest)
            [] c.op = "verify-installation" -> verifyInstallation(c, a, rest)
    /\ Track
    /\ UNCHANGED <<Host, Main, electronAPI>>

(* The setTimeout of installComponent fires: setCurrentIndex(index + 1),   *)
(* and the effect of currentIndex runs.                                    *)
setCurrentIndex ==
    /\ installing
    /\ timer # NoTimer
    /\ currentIndex' = timer
    /\ IF timer < Len(components)
       THEN LET r == installComponent(electronAPI, components, timer, inflight)
            IN /\ components' = r.components
               /\ timer' = r.timer
               /\ inflight' = r.inflight
               /\ started' = IF r.ran THEN Append(started, timer) ELSE started
               /\ isComplete' = isComplete
       ELSE /\ isComplete' = TRUE
            /\ timer' = NoTimer
            /\ UNCHANGED <<components, inflight, started>>
    /\ Track
    /\ UNCHANGED <<Host, Main, electronAPI, currentStep, osInfo, prerequisites, loading,
                   detected, installing, handed, selectedCluster, setupStatus>>

KeepSteps ==
    UNCHANGED <<Host, Main, electronAPI, currentStep, osInfo, prerequisites, loading,
                detected, installing, components, currentIndex, isComplete, timer,
                handed, started, finished, homebrewRequested>>

(* A cluster option of the idle ClusterSetupStep is clicked.               *)
setSelectedCluster(option) ==
    /\ currentStep = 5
    /\ setupStatus = "idle"
    /\ selectedCluster' = option
    /\ UNCHANGED <<setupStatus, inflight>>
    /\ KeepSteps

(* handleStartCluster without its test of selectedCluster and callable     *)
(* whatever the status is.                                                 *)
handleStartClusterAnyTime ==
    /\ currentStep = 5
    /\ Len(inflight) < MaxInFlight
    /\ electronAPI
    /\ setupStatus' = "starting"
    /\ inflight' = Issue(inflight, "start-cluster", selectedCluster, 0)
    /\ UNCHANGED selectedCluster
    /\ KeepSteps

(* The Start button of the idle ClusterSetupStep (disabled until a cluster *)
(* is selected) is clicked: handleStartCluster up to its await.            *)
handleStartCluster ==
    /\ currentStep = 5
    /\ setupStatus = "idle"
    /\ selectedCluster # "null"
    /\ Len(inflight) < MaxInFlight
    /\ IF selectedCluster = "null" \/ ~electronAPI
       THEN UNCHANGED <<setupStatus, inflight>>
       ELSE /\ setupStatus' = "starting"
            /\ inflight' = Issue(inflight, "start-cluster", selectedCluster, 0)
    /\ UNCHANGED selectedCluster
    /\ KeepSteps

(* The Try Again button of the error view.                                 *)
TryAgain ==
    /\ currentStep = 5
    /\ setupStatus = "error"
    /\ setupStatus' = "idle"
    /\ UNCHANGED <<selectedCluster, inflight>>
    /\ KeepSteps

WizardInit ==
    /\ impl = "main_cjs"
    /\ platform \in WizardPlatforms
    /\ markerFiles = {}
    /\ MainStart
    /\ electronAPI \in BOOLEAN
    /\ WizardStart

WizardNext ==
    \/ handleNext
    \/ handlePrevious
    \/ \E i \in 1..MaxInFlight, a \in Answers("check-prerequisites")
                                     \cup Answers("install-homebrew") : Settle(i, a)
    \/ setCurrentIndex
    \/ \E option \in {"minikube", "kind"} : setSelectedCluster(option)
    \/ handleStartCluster
    \/ TryAgain

WizardSpec == WizardInit /\ [][WizardNext]_vars

(* Every pending IPC call settles and every pending timer fires.           *)
WizardFairSpec ==
    /\ WizardSpec
    /\ WF_vars(\E i \in 1..MaxInFlight, a \in Answers("check-prerequisites")
                                           \cup Answers("install-homebrew") : Settle(i, a))
    /\ WF_vars(setCurrentIndex)

----------------------------------------------------------------------------
(* Properties.                                                             *)

ComponentKinds == {"docker", "kubectl", "helm", "git", "minikube", "kind"}

(* The request has been answered after one call of executeCommand whose    *)
(* process was started.                                                    *)
ExecReturned == pc = "returned" /\ execCalls = 1 /\ ended # "none"

InstallReturned ==
    /\ ExecReturned
    /\ req.op = "install-component"
    /\ req.arg \in InstallableComponents

ReclassificationMatches ==
    AlreadyInstalledText(execResult.error) \/ AlreadyInstalledText(execResult.output)

(* C1: an install whose command failed with "already installed" or "No     *)
(* available upgrade" in its stderr or in its stdout returns success=true. *)
C1_ReclassifiedFromStderrOrStdout ==
    (impl = "main_cjs" /\ InstallReturned /\ ended # "exit0" /\ ReclassificationMatches)
        => result.success

OutcomeOperations ==
    {"install-homebrew", "update-package-manager", "install-component", "start-cluster"}

(* C2: an outcome of install-homebrew, update-package-manager,             *)
(* install-component or start-cluster has success=true only if the command *)
(* exited with code zero, or it failed and the reclassification rule       *)
(* matched, or the outcome is a skip; a failed execution without a match   *)
(* yields success=false.                                                   *)
C2_NoFabricatedSuccess ==
    (pc = "returned" /\ req.op \in OutcomeOperations) =>
        /\ result.success =>
              \/ (ExecReturned /\ ended = "exit0")
              \/ (ExecReturned /\ ended # "exit0" /\ ReclassificationMatches)
              \/ result.skip
        /\ (ExecReturned /\ ended # "exit0" /\ ~ReclassificationMatches)
              => ~result.success

(* A failed install without any "already installed" text was reported as a *)
(* failure.                                                                *)
C2_Witness ==
    /\ InstallReturned
    /\ ended = "exitN"
    /\ ~ReclassificationMatches
    /\ execResult.error # <<>>
    /\ ~result.success

InvalidRequest ==
    \/ req.op = "install-component" /\ req.arg \notin ComponentKinds
    \/ req.op = "start-cluster" /\ req.arg \notin {"minikube", "kind"}

(* C3: an install-component call with an unrecognised component and a      *)
(* start-cluster call with an unknown cluster type return a failure, and   *)
(* no external process is started while they are served.                   *)
C3_InvalidRequestSpawnsNothing ==
    InvalidRequest =>
        /\ spawned = 0
        /\ pc # "rejected"
        /\ pc = "returned" => ~result.success

(* C4: on an OS family that is none of windows, macos, linux every install *)
(* operation returns a failure and never executes a command, in every      *)
(* main-process file.                                                      *)
C4_UnsupportedPlatformFails ==
    (/\ platform \notin SupportedPlatforms
     /\ req.op = "install-component"
     /\ req.arg \in InstallableComponents) =>
        /\ execCalls = 0
        /\ pc # "rejected"
        /\ pc = "returned" => ~result.success

(* C5: no operation of the IPC surface ever rejects to its caller.         *)
C5_NeverRejects == impl = "main_cjs" => pc # "rejected"

(* C6: executeCommand resolves with success=true and code 0, or with       *)
(* success=false and a code that is a non-zero integer or null, null only  *)
(* after a timeout.                                                        *)
C6_SuccessAndCodeAgree ==
    ExecReturned =>
        \/ execResult.success /\ execResult.code = IntCode(0)
        \/ /\ ~execResult.success
           /\ \/ execResult.code.type = "int" /\ execResult.code.int # 0
              \/ execResult.code.type = "null" /\ ended = "timeout"

(* C7: a command that has not exited when its timeout elapses yields       *)
(* success=false, and once the result is returned the process doing the    *)
(* work is no longer running.                                              *)
C7_TimeoutStopsTheCommand ==
    (pc = "returned" /\ ended = "timeout") =>
        ~execResult.success /\ ~workerAlive

LongRunning ==
    \/ req.op = "install-homebrew"
    \/ req.op = "install-component" /\ req.arg = "docker"
    \/ req.op = "start-cluster"

(* C8: the Homebrew bootstrap, the Docker install and every cluster start  *)
(* run with the 10-minute timeout, every other executed command with the   *)
(* 5-minute default.                                                       *)
C8_TimeoutSelection ==
    pc = "executing" =>
        child.timeout = IF LongRunning THEN LongTimeout ELSE DefaultTimeout

(* C9: package-manager detection always terminates with a package manager, *)
(* also when a probe fails or does not exit.                               *)
C9_DetectionTerminates == (pc = "construct") ~> (packageManager # "none")

(* C10: on Windows the command line executeCommand runs has every &, < and *)
(* > escaped before it is wrapped for cmd; elsewhere it is unmodified.     *)
C10_ExecutedCommandEscaped ==
    (impl = "main_cjs" /\ pc = "executing") =>
        child.fullCommand = IF platform = "win32"
                            THEN <<"cmd /c ">> \o Escape(child.command)
                            ELSE child.command

(* The installer has been constructed: detectPackageManager returned.     *)
Detected == packageManager # "none"

(* The probe of this command was run and exited with code zero.            *)
ProbeOk(command) ==
    \E i \in 1..Len(probes) : probes[i].command = command /\ probes[i].ok

ProbeRan(command) ==
    \E i \in 1..Len(probes) : probes[i].command = command

(* C11: detectPackageManager gives homebrew on macOS; on Windows winget if *)
(* the winget probe succeeds, else chocolatey ('choco' in the code) if the *)
(* choco probe succeeds, else unknown; unknown on any other OS family that *)
(* is not Linux; in every main-process file.                               *)
C11_DetectNonLinux ==
    (Detected /\ platform # "linux") =>
        packageManager =
            CASE platform = "darwin" -> "homebrew"
              [] platform = "win32"  ->
                     IF ProbeOk(<<"winget --version">>) THEN "winget"
                     ELSE IF ProbeOk(<<"choco --version">>) THEN "choco"
                     ELSE "unknown"
              [] OTHER -> "unknown"

(* C12: on Linux detection is the first match of: debian marker -> apt,    *)
(* redhat marker -> yum, arch marker -> pacman, dnf probe -> dnf, else     *)
(* unknown; the dnf probe runs only when no marker file exists.            *)
C12_DetectLinuxPriority ==
    (platform = "linux") =>
        /\ ProbeRan(<<"dnf --version">>) => markerFiles = {}
        /\ \A i \in 1..Len(probes) : probes[i].command = <<"dnf --version">>
        /\ Detected =>
             packageManager =
                 IF "/etc/debian_version" \in markerFiles THEN "apt"
                 ELSE IF "/etc/redhat-release" \in markerFiles THEN "yum"
                 ELSE IF "/etc/arch-release" \in markerFiles THEN "pacman"
                 ELSE IF ProbeOk(<<"dnf --version">>) THEN "dnf"
                 ELSE "unknown"

(* A host with the redhat and arch markers was detected as yum without any *)
(* probe.                                                                  *)
C12_Witness ==
    /\ platform = "linux"
    /\ markerFiles = {"/etc/redhat-release", "/etc/arch-release"}
    /\ packageManager = "yum"
    /\ probes = <<>>

(* The version check of each component.                                   *)
VersionCheck ==
    [docker   |-> <<"docker --version">>,
     kubectl  |-> <<"kubectl version --client">>,
     helm     |-> <<"helm version">>,
     git      |-> <<"git --version">>,
     minikube |-> <<"minikube version">>,
     kind     |-> <<"kind version">>]

(* The order in which checkPrerequisites awaits its checks.                *)
CheckOrder == <<"docker", "kubectl", "helm", "git", "minikube", "kind">>

(* C13: check-prerequisites returns a result for exactly the six           *)
(* components; installed is true iff the version check of that component   *)
(* exited with code zero (a failed or timed-out check gives false, and no  *)
(* check changes the result of another); each check of main.cjs runs with  *)
(* the 10-second timeout.                                                  *)
C13_PrerequisitesMatchProbes ==
    (req.op = "check-prerequisites") =>
        /\ pc # "rejected"
        /\ pc = "checking" =>
             /\ child.command = VersionCheck[CheckOrder[Len(checkExits) + 1]]
             /\ impl = "main_cjs" => child.timeout = 10000
        /\ pc = "returned" =>
             /\ result.shape = "checks"
             /\ DOMAIN result.installed = ComponentKinds
             /\ Len(checkExits) = 6
             /\ \A i \in 1..6 : result.installed[CheckOrder[i]] = checkExits[i]

(* A returned check in which docker and kind are installed and kubectl is  *)
(* not.                                                                    *)
C13_Witness ==
    /\ req.op = "check-prerequisites"
    /\ pc = "returned"
    /\ result.installed["docker"]
    /\ ~result.installed["kubectl"]
    /\ result.installed["kind"]
    /\ checkExits[1] /\ ~checkExits[2]

(* C14: verify-installation returns docker = outcome of the docker probe,  *)
(* kubectl = outcome of the kubectl probe, cluster = success of `kubectl   *)
(* cluster-info`, each a function of its own check only, and `kubectl      *)
(* cluster-info` is executed whatever the probes answered.                 *)
C14_VerifyIndependent ==
    (req.op = "verify-installation") =>
        /\ pc # "rejected"
        /\ pc = "executing" => child.command = <<"kubectl cluster-info">>
        /\ pc = "returned" =>
             /\ result.shape = "verify"
             /\ Len(checkExits) = 6
             /\ execCalls = 1
             /\ result.docker = checkExits[1]
             /\ result.kubectl = checkExits[2]
             /\ result.cluster = (ended = "exit0")

(* Both probes failed and the cluster check succeeded.                     *)
C14_Witness ==
    /\ req.op = "verify-installation"
    /\ pc = "returned"
    /\ ~result.docker
    /\ ~result.kubectl
    /\ result.cluster
    /\ ended = "exit0"

(* C15: install-homebrew returns skip=true without running the bootstrap   *)
(* script off macOS and on macOS when `brew --version` succeeds; when the  *)
(* probe fails it runs the script exactly once and returns the script's    *)
(* success without skip.                                                   *)
C15_InstallHomebrew ==
    (req.op = "install-homebrew") =>
        /\ pc # "rejected"
        /\ pc = "checking" => child.command = <<"brew --version">>
        /\ pc = "executing" =>
             /\ execCalls = 1
             /\ child.command = HomebrewScript
             /\ platform = "darwin" /\ checkExits = <<FALSE>>
        /\ pc = "returned" =>
             IF platform # "darwin" \/ checkExits = <<TRUE>>
             THEN result.success /\ result.skip /\ execCalls = 0
             ELSE /\ checkExits = <<FALSE>>
                  /\ execCalls = 1
                  /\ result.success = (ended = "exit0")
                  /\ ~result.skip

(* On macOS the probe failed and the bootstrap script ran and succeeded.   *)
C15_Witness ==
    /\ req.op = "install-homebrew"
    /\ pc = "returned"
    /\ platform = "darwin"
    /\ checkExits = <<FALSE>>
    /\ execCalls = 1
    /\ ended = "exit0"
    /\ result.success

(* C16: every install-component(docker) call of a sequence whose command  *)
(* exits zero or fails with "already installed" on stderr returns          *)
(* success=true (main.cjs).                                                *)
C16_DockerInstallIdempotent ==
    (impl = "main_cjs" /\ DockerInstallRepeatable) => result.success

(* The second of two docker installs in a row failed with "already         *)
(* installed" on stderr, and both returned success.                        *)
C16_Witness ==
    /\ impl = "main_cjs"
    /\ prevDockerOk
    /\ DockerInstallRepeatable
    /\ ended = "exitN"
    /\ result.success

(* C17: install-component answers "Unknown component" iff its argument is *)
(* outside {docker, kubectl, helm, git, minikube, kind}, and dispatches to *)
(* an install of the component for each of the six.                        *)
C17_ComponentValidated ==
    (req.op = "install-component" /\ pc = "returned") =>
        /\ (result.message = "Unknown component") = (req.arg \notin ComponentKinds)
        /\ (req.arg \in ComponentKinds /\ platform \in SupportedPlatforms)
              => execCalls = 1

InstallingOnWindows(component) ==
    /\ platform = "win32"
    /\ req.op = "install-component"
    /\ req.arg = component
    /\ pc = "executing"

(* C18 as stated: on Windows the command executed for kind is always the   *)
(* Chocolatey one, whatever package manager was detected.                  *)
C18_KindAlwaysChoco ==
    InstallingOnWindows("kind") => child.command = <<"choco install kind -y">>

(* C18 as amended: on Windows the command executed for kind is the         *)
(* Chocolatey one unless main.cjs detected winget, in which case it is the *)
(* winget command for Kubernetes.Kind; part_000 always uses Chocolatey.    *)
C18_KindOnWindows ==
    InstallingOnWindows("kind") =>
        child.command =
            IF impl = "main_cjs" /\ packageManager = "winget"
            THEN <<"winget install --id Kubernetes.Kind --accept-package-agreements --accept-source-agreements --silent --force">>
            ELSE <<"choco install kind -y">>

(* main.cjs installs kind on a Windows host where winget was detected.     *)
C18_Witness ==
    /\ InstallingOnWindows("kind")
    /\ impl = "main_cjs"
    /\ packageManager = "winget"
    /\ ProbeOk(<<"winget --version">>)

(* The commands the package managers are given for a component.           *)
WingetInstall(im, component) ==
    LET id == CASE component = "docker"   -> "Docker.DockerDesktop"
                [] component = "kubectl"  -> "Kubernetes.kubectl"
                [] component = "minikube" -> "Kubernetes.minikube"
                [] component = "helm"     -> "Helm.Helm"
    IN IF im = "main_cjs"
       THEN <<"winget install --id " \o id
              \o " --accept-package-agreements --accept-source-agreements --silent --force">>
       ELSE <<"winget install " \o id>>

ChocoInstall(im, component) ==
    CASE component = "docker"   -> IF im = "main_cjs"
                                   THEN <<"choco install docker-desktop -y --force">>
                                   ELSE <<"choco install docker-desktop -y">>
      [] component = "kubectl"  -> <<"choco install kubernetes-cli -y">>
      [] component = "minikube" -> <<"choco install minikube -y">>
      [] component = "helm"     -> <<"choco install kubernetes-helm -y">>

BrewInstall(component) ==
    CASE component = "docker"   -> <<"brew install --cask docker">>
      [] component = "kubectl"  -> <<"brew install kubectl">>
      [] component = "minikube" -> <<"brew install minikube">>
      [] component = "helm"     -> <<"brew install helm">>

AptInstallKubectl ==
    <<"sudo apt-get update ", "&", "&", " sudo apt-get install -y kubectl">>

KubectlDownload ==
    "curl -LO \"https://dl.k8s.io/release/$(curl -L -s https://dl.k8s.io/release/stable.txt)/bin/linux/amd64/kubectl\" "

ManagedInstalls == {"docker", "kubectl", "minikube", "helm"}

(* C19: the command executed for docker, kubectl, minikube and helm        *)
(* follows the detected package manager: the winget command with winget,   *)
(* the choco command (never the winget one) with chocolatey, the brew      *)
(* command on macOS; on Linux kubectl is installed through apt-get iff apt *)
(* was detected and by download otherwise.                                 *)
C19_CommandFollowsPackageManager ==
    (req.op = "install-component" /\ req.arg \in ManagedInstalls /\ pc = "executing") =>
        /\ platform = "darwin" => child.command = BrewInstall(req.arg)
        /\ (platform = "win32" /\ packageManager = "winget")
              => child.command = WingetInstall(impl, req.arg)
        /\ (platform = "win32" /\ packageManager = "choco")
              => child.command = ChocoInstall(impl, req.arg)
        /\ (platform = "linux" /\ req.arg = "kubectl") =>
              /\ (child.command = AptInstallKubectl) = (packageManager = "apt")
              /\ packageManager # "apt" => child.command[1] = KubectlDownload

(* winget is absent, Chocolatey present, and minikube is being installed   *)
(* with the choco command.                                                 *)
C19_Witness ==
    /\ InstallingOnWindows("minikube")
    /\ ~ProbeOk(<<"winget --version">>)
    /\ ProbeOk(<<"choco --version">>)
    /\ packageManager = "choco"
    /\ child.command = <<"choco install minikube -y">>

(* The command line install-component handed to executeCommand.            *)
InstalledWith == InstallCommand(impl, req.arg, platform, packageManager).command

(* The command downloads a file, and its step that installs the file was   *)
(* started: every step before it completed.                                *)
InstallStepRan ==
    \E i \in 1..Len(Steps(InstalledWith)) :
        /\ StepInstalls(Steps(InstalledWith)[i])
        /\ i <= stepsDone + 1

(* C20: when a Linux download-based install command of main.cjs has        *)
(* finished (exit code zero or not) after its install step ran, the file   *)
(* it downloaded no longer exists.                                         *)
C20_DownloadCleanedUp ==
    (/\ impl = "main_cjs"
     /\ platform = "linux"
     /\ InstallReturned
     /\ ended \in {"exit0", "exitN"}
     /\ InstallStepRan)
        => FilesLeft(InstalledWith, stepsDone) = {}

(* The Chocolatey command of each component install-component has a case   *)
(* for.                                                                    *)
ChocoCommand(im, component) ==
    IF component = "kind" THEN <<"choco install kind -y">>
                          ELSE ChocoInstall(im, component)

(* The handler of an install-component request for a known component has   *)
(* run on Windows.                                                         *)
InstallHandledOnWindows ==
    /\ platform = "win32"
    /\ req.op = "install-component"
    /\ req.arg \in InstallableComponents
    /\ pc \in {"executing", "returned", "rejected"}

(* C30: on Windows, when the detected package manager is not winget        *)
(* (unknown included), an install of docker, kubectl, minikube, kind or    *)
(* helm executes the Chocolatey command of the component; it never returns *)
(* without having executed a command.                                      *)
C30_WindowsFallsBackToChoco ==
    (InstallHandledOnWindows /\ packageManager # "winget") =>
        /\ pc # "rejected"
        /\ execCalls = 1
        /\ spawned = Len(probes) + 1
        /\ pc = "executing" => child.command = ChocoCommand(impl, req.arg)
        /\ pc = "returned" => ended # "none"

(* Neither winget nor Chocolatey was found, and the Chocolatey command for *)
(* helm is being executed.                                                 *)
C30_Witness ==
    /\ InstallHandledOnWindows
    /\ packageManager = "unknown"
    /\ ~ProbeOk(<<"winget --version">>)
    /\ ProbeRan(<<"choco --version">>)
    /\ ~ProbeOk(<<"choco --version">>)
    /\ pc = "executing"
    /\ child.command = <<"choco install kubernetes-helm -y">>

InstallOrStart == req.op \in {"install-component", "start-cluster"}

(* The request names a known component or cluster type and the platform is *)
(* one the operation has a command for.                                    *)
CommandResolved ==
    \/ req.op = "install-component" /\ req.arg \in InstallableComponents
                                     /\ platform \in SupportedPlatforms
    \/ req.op = "start-cluster" /\ req.arg \in {"minikube", "kind"}

(* The process of executeCommand was started.                              *)
ExecStarted == pc = "executing" \/ ended # "none"

(* C25 as stated: an install-component or start-cluster operation that     *)
(* resolved a command has spawned exactly one external process when it     *)
(* returns, on every host platform.                                        *)
C25_ExactlyOneProcess ==
    (InstallOrStart /\ CommandResolved /\ pc = "returned") => spawned = 1

(* The probes the constructor may run, in order: none on macOS, winget and *)
(* then (main.cjs, winget failed) choco on Windows, dnf on a Linux host     *)
(* without marker file.                                                    *)
ProbesInOrder ==
    CASE platform = "win32" ->
             /\ Len(probes) <= 2
             /\ Len(probes) >= 1 => probes[1].command = <<"winget --version">>
             /\ Len(probes) = 2 => /\ impl = "main_cjs"
                                   /\ ~probes[1].ok
                                   /\ probes[2].command = <<"choco --version">>
      [] platform = "linux" ->
             /\ Len(probes) <= 1
             /\ Len(probes) = 1 => /\ markerFiles = {}
                                   /\ probes[1].command = <<"dnf --version">>
      [] OTHER -> probes = <<>>

(* C25 as amended: an install-component or start-cluster operation calls   *)
(* executeCommand at most once, exactly once when it resolved a command,   *)
(* and the only other processes it starts are the probes of the            *)
(* constructor, each of which has ended before the next process starts.    *)
C25_OneCommandAfterProbes ==
    InstallOrStart =>
        /\ execCalls <= 1
        /\ checks = <<>>
        /\ ProbesInOrder
        /\ spawned = Len(probes) + (IF pc = "probing" THEN 1 ELSE 0)
                                 + (IF ExecStarted THEN 1 ELSE 0)
        /\ ExecStarted => pc # "probing" /\ execCalls = 1
        /\ (pc = "returned" /\ CommandResolved) => ExecStarted

(* main.cjs returned from a docker install on Windows after the winget     *)
(* probe, the choco probe and the install command: three processes.        *)
C25_Witness ==
    /\ platform = "win32"
    /\ req.op = "install-component"
    /\ req.arg = "docker"
    /\ pc = "returned"
    /\ Len(probes) = 2
    /\ spawned = 3
    /\ execCalls = 1

(* The package manager of the host as it is during this call: the marker   *)
(* files and the answers its probes got.                                   *)
ManagerOfEnvironment ==
    CASE platform = "darwin" -> "homebrew"
      [] platform = "win32"  ->
             IF ProbeOk(<<"winget --version">>) THEN "winget"
             ELSE IF impl = "main_cjs" /\ ~ProbeOk(<<"choco --version">>) THEN "unknown"
             ELSE "choco"
      [] platform = "linux"  ->
             IF "/etc/debian_version" \in markerFiles THEN "apt"
             ELSE IF "/etc/redhat-release" \in markerFiles THEN "yum"
             ELSE IF "/etc/arch-release" \in markerFiles THEN "pacman"
             ELSE IF ProbeOk(<<"dnf --version">>) THEN "dnf"
             ELSE "unknown"
      [] OTHER -> "unknown"

(* C23: every operation detects the package manager again when it is       *)
(* invoked: the manager it works with, the answer of                       *)
(* detect-package-manager and the command of install-component are those   *)
(* of the host at the time of the call, whatever an earlier call detected. *)
C23_DetectedAtCallTime ==
    /\ pc = "construct" => packageManager = "none" /\ probes = <<>>
    /\ Detected =>
          /\ packageManager = ManagerOfEnvironment
          /\ (req.op = "detect-package-manager" /\ pc = "returned") =>
                result = detectPackageManagerResult(ManagerOfEnvironment, platform)
          /\ (req.op = "install-component" /\ pc = "executing") =>
                child.command =
                    InstallCommand(impl, req.arg, platform, ManagerOfEnvironment).command

(* detect-package-manager answered apt, the debian marker went away, and   *)
(* the kubectl install that followed detected yum and downloads the        *)
(* binary instead of using apt-get.                                        *)
C23_Witness ==
    /\ prevApt
    /\ platform = "linux"
    /\ markerFiles = {"/etc/redhat-release"}
    /\ req.op = "install-component"
    /\ req.arg = "kubectl"
    /\ pc = "executing"
    /\ packageManager = "yum"
    /\ child.command[1] = KubectlDownload

----------------------------------------------------------------------------
(* The wizard.                                                             *)

(* The pending calls of a channel, and those of the step that is mounted.  *)
Calls(op) == {i \in 1..Len(inflight) : inflight[i].op = op}

LiveCalls(op) == {i \in Calls(op) : inflight[i].live}

(* C21: on macOS inside the application (electronAPI available) the        *)
(* installation step requests install-homebrew before any component        *)
(* install: whenever an install-component request is out, install-homebrew *)
(* has been requested before.                                              *)
C21_HomebrewBeforeComponents ==
    (platform = "darwin" /\ electronAPI /\ Calls("install-component") # {})
        => homebrewRequested

(* The step finds nothing to install in the prerequisites handed to it.    *)
NothingMissing(pre) ==
    /\ {"docker", "kubectl", "helm"} \subseteq pre.installed
    /\ pre.installed \cap {"minikube", "kind"} # {}

(* C22: every install-component request of the installation step names a   *)
(* component whose probe in the prerequisites handed to the step said      *)
(* installed = false, and when nothing is missing the step issues no        *)
(* install-component request at all (its queue is the 'check' entry).      *)
C22_OnlyMissingInstalled ==
    /\ \A i \in LiveCalls("install-component") :
           /\ installing
           /\ inflight[i].arg \notin handed.installed
    /\ (installing /\ NothingMissing(handed)) =>
           /\ LiveCalls("install-component") = {}
           /\ \A i \in 1..Len(components) : components[i].key = "check"

C22_Witness ==
    /\ installing
    /\ handed.installed = {"docker", "git"}
    /\ \E i \in LiveCalls("install-component") : inflight[i].arg = "minikube"
    /\ "kubectl" \in finished

(* C24: the wizard issues one operation at a time, whatever the user does  *)
(* with Previous and Next while an operation is running: at most one IPC   *)
(* call of the wizard is pending at any moment.                            *)
C24_OneOperationAtATime == Len(inflight) <= 1

(* C26: a component's lifecycle is NotStarted -> Checking -> (Skipped |     *)
(* Installing) -> (Succeeded | Failed) and its terminal states are final:  *)
(* no component that has reached success, skipped or error in the wizard   *)
(* is being installed again.                                               *)
C26_TerminalStatesAreFinal ==
    \A i \in 1..Len(components) :
        components[i].status = "installing" => components[i].key \notin finished

(* C28: currentStep stays within 1..6 and moves by one step at a time;     *)
(* Previous does nothing at step 1 and step 6 is never left; the           *)
(* installation step is mounted only when App has recorded both the OS     *)
(* info and the prerequisite results.                                      *)
C28_Navigation ==
    /\ [](/\ currentStep \in 1..LastStep
          /\ installing => (currentStep = 4 /\ osInfo # "null" /\ prerequisites.known))
    /\ [][/\ currentStep' \in {currentStep - 1, currentStep, currentStep + 1}
          /\ currentStep = LastStep => currentStep' = LastStep]_vars

C28_Witness ==
    /\ currentStep = LastStep
    /\ finished # {}
    /\ osInfo # "null"

(* The moves of setupStatus while the cluster step stays mounted.          *)
ClusterMoves ==
    {<<"idle", "starting">>, <<"starting", "success">>, <<"starting", "error">>,
     <<"error", "idle">>}

(* C29: while the cluster step is mounted its status moves only            *)
(* idle -> starting -> (success | error) and error -> idle; start-cluster  *)
(* is invoked only from idle and only with minikube or kind, so the        *)
(* mounted step has at most one start-cluster call pending and the         *)
(* unknown-cluster-type answer cannot be provoked; the wizard moves on to  *)
(* verification only from success or error.                                *)
C29_ClusterStep ==
    /\ [](/\ \A i \in Calls("start-cluster") : inflight[i].arg \in {"minikube", "kind"}
          /\ Cardinality(LiveCalls("start-cluster")) <= 1
          /\ (LiveCalls("start-cluster") # {}) <=> (setupStatus = "starting"))
    /\ [][/\ (currentStep = 5 /\ currentStep' = 5 /\ setupStatus' # setupStatus)
                 => <<setupStatus, setupStatus'>> \in ClusterMoves
          /\ Cardinality(Calls("start-cluster")') > Cardinality(Calls("start-cluster"))
                 => (setupStatus = "idle" /\ setupStatus' = "starting")
          /\ (currentStep = 5 /\ currentStep' = 6)
                 => setupStatus \in {"success", "error"}]_vars

C29_Witness ==
    /\ currentStep = 5
    /\ setupStatus = "starting"
    /\ \E i \in Calls("start-cluster") : ~inflight[i].live

(* The installation step stays mounted over the step.                      *)
SameMount == installing /\ installing'

====
